---- MODULE Spec2Model ----
(***************************************************************************)
(* A model of the finding reconciliation engine of sonar-tools             *)
(* (sonar/findings.py): the Finding entity, the matcher                    *)
(* (strictly_identical_to, almost_identical_to), the sync policy           *)
(* (can_be_synced), the reconciliation driver (search_siblings) and the    *)
(* multithreaded history enrichment (get_changelogs).                      *)
(*                                                                         *)
(* Python values are encoded as follows.  A string field that may be None  *)
(* holds the string NoneStr in that case.  Any other optional value is an  *)
(* option: Nothing (the empty tuple) for None / a missing dict key,        *)
(* Some(x) otherwise.  A call result is one of the strings "True",         *)
(* "False", or the name of the exception the call raises, prefixed by "!". *)
(***************************************************************************)
EXTENDS Integers, Sequences, FiniteSets, TLC

VARIABLES
    a,                  \* receiver of a direct call (self)
    b,                  \* the other finding of a direct call (another_finding)
    opts,               \* arguments of a direct call
    op,                 \* the method a direct call ran ("none" before the call)
    ret,                \* what the direct call returned or raised
    server,             \* remote platform: finding key -> changelog and comments
    \* search_siblings: arguments
    ss_self,             \* the source finding
    findings_list,      \* the candidate population
    allowed_users,
    ss_ignore_component,
    ss_kwargs,
    \* search_siblings: locals
    phase,              \* "idle", "exact" (first loop), "approx" (second loop), "returned", "raised"
    idx,                \* position of the loop in findings_list
    exact_matches,      \* the three result lists hold positions of findings_list
    approx_matches,
    match_but_modified,
    \* get_changelogs: arguments
    issue_list,         \* the findings to enrich
    gc_added_after,
    threads,
    \* get_changelogs: the queue, the main thread and the workers
    queue,              \* positions of issue_list waiting in the Queue, oldest first
    unfinished_tasks,   \* the Queue's count of items put and not yet task_done()
    mainPc,             \* "idle", "call", "put", "start", "join", "returned"
    started,            \* number of worker threads started so far
    workerPc,           \* per worker: "unstarted", "check", "get", "has_changelog",
                        \* "has_comments", "task_done", "exited", "crashed"
    workerItem,         \* per worker: the position it took from the queue (0: none)
    runs,               \* what issue_list held at each return of get_changelogs so far
    \* Finding(key, endpoint, data, from_export)
    init_data,          \* the raw record (absent: data=None)
    init_from_export,
    outcome,            \* "none" before the call, then "constructed" or the exception
    obj,                \* the Finding the caller received (absent before and on an exception)
    exported,           \* what to_json() on that Finding gave (absent before the call)
    \* qualitygates.py: the platform, the QualityGate objects and the registries
    qg_platform,        \* the quality gates of the platform: id -> name
    qg_objects,         \* the QualityGate objects constructed so far: [key, name]
    _QUALITY_GATES,     \* dict: _uuid(name, key) -> object (its position in qg_objects)
    _MAP,               \* dict: [id |-> key] under a name, [obj |-> object] under a uuid
    qg_ret              \* the last get_object call: its name and what it returned

callVars == <<a, b, opts, op, ret>>

searchVars == <<ss_self, findings_list, allowed_users, ss_ignore_component, ss_kwargs,
                phase, idx, exact_matches, approx_matches, match_but_modified>>

enrichVars == <<issue_list, gc_added_after, threads, queue, unfinished_tasks,
                mainPc, started, workerPc, workerItem, runs>>

loadVars == <<init_data, init_from_export, outcome, obj, exported>>

gateVars == <<qg_platform, qg_objects, _QUALITY_GATES, _MAP, qg_ret>>

vars == <<callVars, server, searchVars, enrichVars, loadVars, gateVars>>

-----------------------------------------------------------------------------
(* Encoding of Python values *)

NoneStr == "None"
Nothing == <<>>
Some(x) == <<x>>
IsSome(o) == o # Nothing
Get(o) == o[1]

PyBool(p) == IF p THEN "True" ELSE "False"
TypeError == "!TypeError"
IsRaise(r) == r \in {"!TypeError", "!KeyError", "!RemoteFetchError"}

Last(s) == s[Len(s)]

-----------------------------------------------------------------------------
(* Bounds *)

\* longest changelog of a finding
MaxLog == 2

-----------------------------------------------------------------------------
(* Finding.file *)

\* Positions of tokens where the regex "(^.*):<marker>:" can match: the marker
\* is a whole colon-separated segment with a colon before it and after it.
MarkerPositions(tokens, marker) ==
    {i \in 2..(Len(tokens) - 1) : tokens[i] = marker}

Max(S) == CHOOSE x \in S : \A y \in S : y <= x

\* m = re.search("(^.*):MARKER:", comp); if m: comp = m.group(1)
\* ".*" is greedy, so group(1) runs up to the last occurrence of the marker.
StripMarker(tokens, marker) ==
    IF MarkerPositions(tokens, marker) = {}
    THEN tokens
    ELSE SubSeq(tokens, 1, Max(MarkerPositions(tokens, marker)) - 1)

\* The component identifier is a sequence of colon-separated segments.
File(f) ==
    IF ~IsSome(f.json) THEN TypeError
    ELSE LET j == Get(f.json) IN
         IF IsSome(j.component)
         THEN Last(StripMarker(StripMarker(Get(j.component), "BRANCH"), "PULL_REQUEST"))
         ELSE IF IsSome(j.path) THEN Get(j.path)
         ELSE NoneStr

-----------------------------------------------------------------------------
(* Matcher *)

\* The strings r for which the Python expression  r in ("python:S6540")  is
\* true among the rules of the model: the parentheses make no tuple, so the
\* test is a substring test against the string "python:S6540".
SubstringsOfS6540 == {"python:S6540", "S6540", "python"}

\* self.rule in ("python:S6540"); a None rule raises TypeError
RuleInS6540(rule) ==
    IF rule = NoneStr THEN TypeError ELSE PyBool(rule \in SubstringsOfS6540)

\* Lines 334-341: prelim_check, or the exception that escapes its evaluation.
\* _json["textRange"]["startOffset"] raises KeyError (caught) when the offset
\* is missing and TypeError (not caught) when _json is None.
PrelimCheck(self, another_finding) ==
    IF RuleInS6540(self.rule) = TypeError THEN TypeError
    ELSE IF RuleInS6540(self.rule) = "False" THEN "True"
    ELSE IF ~IsSome(self.json) THEN TypeError
    ELSE IF ~IsSome(Get(self.json).startOffset) THEN "True"
    ELSE IF ~IsSome(another_finding.json) THEN TypeError
    ELSE IF ~IsSome(Get(another_finding.json).startOffset) THEN "True"
    ELSE PyBool(Get(Get(self.json).startOffset)
                    = Get(Get(another_finding.json).startOffset))

\* Mutant: the comparison without the identical-key short-circuit of line 332
StrictlyIdenticalTo_NoKeyShortcut(self, another_finding, ignore_component) ==
    IF IsRaise(PrelimCheck(self, another_finding))
    THEN PrelimCheck(self, another_finding)
    ELSE IF \/ self.rule # another_finding.rule
            \/ self.hash # another_finding.hash
            \/ self.message # another_finding.message
    THEN "False"
    ELSE IF IsRaise(File(self)) THEN File(self)
    ELSE IF IsRaise(File(another_finding)) THEN File(another_finding)
    ELSE PyBool(/\ File(self) = File(another_finding)
                /\ (self.component = another_finding.component \/ ignore_component)
                /\ PrelimCheck(self, another_finding) = "True")

StrictlyIdenticalTo(self, another_finding, ignore_component) ==
    IF self.key = another_finding.key THEN "True"
    ELSE IF IsRaise(PrelimCheck(self, another_finding))
    THEN PrelimCheck(self, another_finding)
    ELSE IF \/ self.rule # another_finding.rule
            \/ self.hash # another_finding.hash
            \/ self.message # another_finding.message
    THEN "False"
    ELSE IF IsRaise(File(self)) THEN File(self)
    ELSE IF IsRaise(File(another_finding)) THEN File(another_finding)
    ELSE PyBool(/\ File(self) = File(another_finding)
                /\ (self.component = another_finding.component \/ ignore_component)
                /\ PrelimCheck(self, another_finding) = "True")

\* Need at least 7 / 9 to match
MatchThreshold == 7

WaiverNames ==
    {"ignore_message", "ignore_line", "ignore_author", "ignore_type", "ignore_severity"}

\* kwargs.get(name, False)
KwGet(kwargs, name) == IF name \in DOMAIN kwargs THEN kwargs[name] ELSE FALSE

Points(cond, n) == IF cond THEN n ELSE 0

\* Mutant: the file path weighs one point instead of two
Score_FileOnePoint(self, another_finding, ignore_component, kwargs) ==
      Points(self.message = another_finding.message \/ KwGet(kwargs, "ignore_message"), 2)
    + Points(File(self) = File(another_finding), 1)
    + Points(self.line = another_finding.line \/ KwGet(kwargs, "ignore_line"), 1)
    + Points(self.component = another_finding.component \/ ignore_component, 1)
    + Points(self.author = another_finding.author \/ KwGet(kwargs, "ignore_author"), 1)
    + Points(self.type = another_finding.type \/ KwGet(kwargs, "ignore_type"), 1)
    + Points(self.severity = another_finding.severity \/ KwGet(kwargs, "ignore_severity"), 1)

\* Mutant: "or" written as exclusive or, a waiver counts only where the values differ
Score_WaiverInsteadOfEqual(self, another_finding, ignore_component, kwargs) ==
      Points((self.message = another_finding.message) # KwGet(kwargs, "ignore_message"), 2)
    + Points(File(self) = File(another_finding), 2)
    + Points((self.line = another_finding.line) # KwGet(kwargs, "ignore_line"), 1)
    + Points((self.component = another_finding.component) # ignore_component, 1)
    + Points((self.author = another_finding.author) # KwGet(kwargs, "ignore_author"), 1)
    + Points((self.type = another_finding.type) # KwGet(kwargs, "ignore_type"), 1)
    + Points((self.severity = another_finding.severity) # KwGet(kwargs, "ignore_severity"), 1)

\* Lines 357-371; called only when both file() calls return.
Score(self, another_finding, ignore_component, kwargs) ==
      Points(self.message = another_finding.message \/ KwGet(kwargs, "ignore_message"), 2)
    + Points(File(self) = File(another_finding), 2)
    + Points(self.line = another_finding.line \/ KwGet(kwargs, "ignore_line"), 1)
    + Points(self.component = another_finding.component \/ ignore_component, 1)
    + Points(self.author = another_finding.author \/ KwGet(kwargs, "ignore_author"), 1)
    + Points(self.type = another_finding.type \/ KwGet(kwargs, "ignore_type"), 1)
    + Points(self.severity = another_finding.severity \/ KwGet(kwargs, "ignore_severity"), 1)

AlmostIdenticalTo(self, another_finding, ignore_component, kwargs) ==
    IF self.rule # another_finding.rule \/ self.hash # another_finding.hash
    THEN "False"
    ELSE IF IsRaise(File(self)) THEN File(self)
    ELSE IF IsRaise(File(another_finding)) THEN File(another_finding)
    ELSE PyBool(Score(self, another_finding, ignore_component, kwargs) >= MatchThreshold)

-----------------------------------------------------------------------------
(* History of a finding and sync policy *)

\* changelog() of the subclasses (Issue, Hotspot): the history is fetched from
\* the platform on the first call and cached in _changelog; the fetch fails
\* with RemoteFetchError.
ChangelogRaises(f, srv) == ~IsSome(f.changelog) /\ srv[f.key].changelog_fails

AfterChangelog(f, srv) ==
    IF IsSome(f.changelog) THEN f
    ELSE [f EXCEPT !.changelog = Some(srv[f.key].changelog)]

Changelog(f, srv) == Get(AfterChangelog(f, srv).changelog)

\* comments() of the subclasses, likewise cached in _comments
CommentsRaises(f, srv) == ~IsSome(f.comments) /\ srv[f.key].comments_fails

AfterComments(f, srv) ==
    IF IsSome(f.comments) THEN f
    ELSE [f EXCEPT !.comments = Some(srv[f.key].comments)]

\* set([c.author() for c in self.changelog().values()])
Modifiers(f, srv) == {Changelog(f, srv)[i] : i \in 1..Len(Changelog(f, srv))}

\* Mutant: the cutoff excludes the boundary (>= for >)
ShortCircuits_Inclusive(f, added_after) ==
    IsSome(added_after) /\ Get(added_after) >= f.modification_date

\* added_after > self.modification_date short-circuits before changelog()
ShortCircuits(f, added_after) ==
    IsSome(added_after) /\ Get(added_after) > f.modification_date

HasChangelog(f, srv, added_after) ==
    IF ShortCircuits(f, added_after) THEN "False"
    ELSE IF ChangelogRaises(f, srv) THEN "!RemoteFetchError"
    ELSE PyBool(Len(Changelog(f, srv)) > 0)

\* Mutant: the short-circuit records an empty changelog on the finding
AfterHasChangelog_EmptyOnCutOff(f, srv, added_after) ==
    IF ShortCircuits(f, added_after) THEN [f EXCEPT !.changelog = Some(<<>>)]
    ELSE AfterChangelog(f, srv)

\* The finding after has_changelog(added_after) returned
AfterHasChangelog(f, srv, added_after) ==
    IF ShortCircuits(f, added_after) THEN f ELSE AfterChangelog(f, srv)

\* Mutant: without an allow-list, "return self.has_changelog()" (the not is lost)
CanBeSynced_NotDropped(f, srv, user_list) ==
    IF ChangelogRaises(f, srv) THEN "!RemoteFetchError"
    ELSE IF ~IsSome(user_list)
    THEN PyBool(HasChangelog(AfterChangelog(f, srv), srv, Nothing) = "True")
    ELSE PyBool(\A u \in Modifiers(f, srv) : u \in Get(user_list))

\* Mutant: with an allow-list, one allowed modifier is enough
CanBeSynced_AnyAllowed(f, srv, user_list) ==
    IF ChangelogRaises(f, srv) THEN "!RemoteFetchError"
    ELSE IF ~IsSome(user_list)
    THEN PyBool(~(HasChangelog(AfterChangelog(f, srv), srv, Nothing) = "True"))
    ELSE PyBool(Modifiers(f, srv) = {} \/ \E u \in Modifiers(f, srv) : u \in Get(user_list))

\* The log.debug call of line 312 evaluates self.modifiers() first.
CanBeSynced(f, srv, user_list) ==
    IF ChangelogRaises(f, srv) THEN "!RemoteFetchError"
    ELSE IF ~IsSome(user_list)
    THEN PyBool(~(HasChangelog(AfterChangelog(f, srv), srv, Nothing) = "True"))
    ELSE PyBool(\A u \in Modifiers(f, srv) : u \in Get(user_list))

-----------------------------------------------------------------------------
(* Reconciliation driver: search_siblings *)

\* SqObject.uuid(): a finding is identified by its key
Uuid(f) == f.key

\* finding.strictly_identical_to(self, ignore_component, **kwargs): the method
\* takes no keyword argument besides ignore_component
StrictlyIdenticalToKw(finding, me, ic, kw) ==
    IF DOMAIN kw # {} THEN TypeError ELSE StrictlyIdenticalTo(finding, me, ic)

\* The locals of a call: st.phase, st.idx, the three lists, and the candidates
\* (whose history a can_be_synced call may fetch).
Candidate(st) == st.findings_list[st.idx]

\* Mutant: can_be_synced fetches the changelog of the candidate again
Fetched_Again(st, srv) ==
    [st EXCEPT !.findings_list[st.idx].changelog = Some(srv[Candidate(st).key].changelog)]

Fetched(st, srv) ==
    [st EXCEPT !.findings_list[st.idx] = AfterChangelog(Candidate(st), srv)]

\* Mutant: the return of line 395 is left out
ExactStep_NoReturn(st, me, srv, users, ic, kw) ==
    IF Uuid(me) = Uuid(Candidate(st)) THEN [st EXCEPT !.idx = @ + 1]
    ELSE IF IsRaise(StrictlyIdenticalToKw(Candidate(st), me, ic, kw))
    THEN [st EXCEPT !.phase = "raised"]
    ELSE IF StrictlyIdenticalToKw(Candidate(st), me, ic, kw) = "False"
    THEN [st EXCEPT !.idx = @ + 1]
    ELSE IF IsRaise(CanBeSynced(Candidate(st), srv, users))
    THEN [st EXCEPT !.phase = "raised"]
    ELSE IF CanBeSynced(Candidate(st), srv, users) = "True"
    THEN [Fetched(st, srv) EXCEPT !.exact_matches = Append(@, st.idx), !.idx = @ + 1]
    ELSE [Fetched(st, srv) EXCEPT !.match_but_modified = Append(@, st.idx), !.idx = @ + 1]

\* Mutant: the return of line 395 sits inside the can_be_synced branch
ExactStep_ReturnOnlyIfSynced(st, me, srv, users, ic, kw) ==
    IF Uuid(me) = Uuid(Candidate(st)) THEN [st EXCEPT !.idx = @ + 1]
    ELSE IF IsRaise(StrictlyIdenticalToKw(Candidate(st), me, ic, kw))
    THEN [st EXCEPT !.phase = "raised"]
    ELSE IF StrictlyIdenticalToKw(Candidate(st), me, ic, kw) = "False"
    THEN [st EXCEPT !.idx = @ + 1]
    ELSE IF IsRaise(CanBeSynced(Candidate(st), srv, users))
    THEN [st EXCEPT !.phase = "raised"]
    ELSE IF CanBeSynced(Candidate(st), srv, users) = "True"
    THEN [Fetched(st, srv) EXCEPT !.exact_matches = Append(@, st.idx), !.phase = "returned"]
    ELSE [Fetched(st, srv) EXCEPT !.match_but_modified = Append(@, st.idx), !.idx = @ + 1]

\* One iteration of the first loop (lines 385-395) on candidate st.idx
ExactStep(st, me, srv, users, ic, kw) ==
    IF Uuid(me) = Uuid(Candidate(st)) THEN [st EXCEPT !.idx = @ + 1]
    ELSE IF IsRaise(StrictlyIdenticalToKw(Candidate(st), me, ic, kw))
    THEN [st EXCEPT !.phase = "raised"]
    ELSE IF StrictlyIdenticalToKw(Candidate(st), me, ic, kw) = "False"
    THEN [st EXCEPT !.idx = @ + 1]
    ELSE IF IsRaise(CanBeSynced(Candidate(st), srv, users))
    THEN [st EXCEPT !.phase = "raised"]
    ELSE IF CanBeSynced(Candidate(st), srv, users) = "True"
    THEN [Fetched(st, srv) EXCEPT !.exact_matches = Append(@, st.idx), !.phase = "returned"]
    ELSE [Fetched(st, srv) EXCEPT !.match_but_modified = Append(@, st.idx), !.phase = "returned"]

\* Mutant: the second loop returns at its first hit, as the first loop does
ApproxStep_ReturnsAtFirstHit(st, me, srv, users, ic, kw) ==
    IF IsRaise(AlmostIdenticalTo(Candidate(st), me, ic, kw))
    THEN [st EXCEPT !.phase = "raised"]
    ELSE IF AlmostIdenticalTo(Candidate(st), me, ic, kw) = "False"
    THEN [st EXCEPT !.idx = @ + 1]
    ELSE IF IsRaise(CanBeSynced(Candidate(st), srv, users))
    THEN [st EXCEPT !.phase = "raised"]
    ELSE IF CanBeSynced(Candidate(st), srv, users) = "True"
    THEN [Fetched(st, srv) EXCEPT !.approx_matches = Append(@, st.idx), !.phase = "returned"]
    ELSE [Fetched(st, srv) EXCEPT !.match_but_modified = Append(@, st.idx), !.phase = "returned"]

\* One iteration of the second loop (lines 398-407) on candidate st.idx
ApproxStep(st, me, srv, users, ic, kw) ==
    IF IsRaise(AlmostIdenticalTo(Candidate(st), me, ic, kw))
    THEN [st EXCEPT !.phase = "raised"]
    ELSE IF AlmostIdenticalTo(Candidate(st), me, ic, kw) = "False"
    THEN [st EXCEPT !.idx = @ + 1]
    ELSE IF IsRaise(CanBeSynced(Candidate(st), srv, users))
    THEN [st EXCEPT !.phase = "raised"]
    ELSE IF CanBeSynced(Candidate(st), srv, users) = "True"
    THEN [Fetched(st, srv) EXCEPT !.approx_matches = Append(@, st.idx), !.idx = @ + 1]
    ELSE [Fetched(st, srv) EXCEPT !.match_but_modified = Append(@, st.idx), !.idx = @ + 1]

\* Lines 381-408 as a whole: the locals when the call has returned or raised
RECURSIVE RunSearch(_, _, _, _, _, _)
RunSearch(st, me, srv, users, ic, kw) ==
    IF st.phase = "exact"
    THEN (IF st.idx <= Len(st.findings_list)
          THEN RunSearch(ExactStep(st, me, srv, users, ic, kw), me, srv, users, ic, kw)
          ELSE RunSearch([st EXCEPT !.phase = "approx", !.idx = 1], me, srv, users, ic, kw))
    ELSE IF st.phase = "approx"
    THEN (IF st.idx <= Len(st.findings_list)
          THEN RunSearch(ApproxStep(st, me, srv, users, ic, kw), me, srv, users, ic, kw)
          ELSE [st EXCEPT !.phase = "returned"])
    ELSE st

\* me.search_siblings(findings_list, allowed_users, ignore_component, **kwargs)
SearchSiblings(me, list, srv, users, ic, kw) ==
    RunSearch([phase |-> "exact", idx |-> 1, exact_matches |-> <<>>,
               approx_matches |-> <<>>, match_but_modified |-> <<>>,
               findings_list |-> list], me, srv, users, ic, kw)

-----------------------------------------------------------------------------
(* Input domains of the direct calls *)

Authors == {"bot", "alice", "bob"}

\* Changelogs, reduced to the authors of their entries, oldest first
Logs == UNION {[1..n -> Authors] : n \in 0..MaxLog}

Raw(tokens, offset) ==
    [component |-> Some(tokens), path |-> Nothing, startOffset |-> offset]

\* Raw records: none, the same file on the main branch and on a branch, with
\* and without a text-range start offset, another file, a record with a path
\* and no component.
JsonDomain ==
    { Nothing,
      Some(Raw(<<"proj", "f1">>, Nothing)),
      Some(Raw(<<"proj", "f1", "BRANCH", "b1">>, Some(0))),
      Some(Raw(<<"proj", "f1">>, Some(4))),
      Some(Raw(<<"proj", "f2">>, Nothing)),
      Some([component |-> Nothing, path |-> Some("f1"), startOffset |-> Nothing]) }

RuleDomain == {NoneStr, "python:S6540", "python", "java:S100"}

BaseFinding ==
    [ key |-> "k0", rule |-> "java:S100", hash |-> "h1", message |-> "m1",
      json |-> Some(Raw(<<"proj", "f1">>, Nothing)), component |-> "c1",
      line |-> Some(1), author |-> "alice", type |-> "BUG", severity |-> "MAJOR",
      status |-> "OPEN", changelog |-> Some(<<>>), comments |-> Some(<<>>),
      modification_date |-> 2 ]

\* A platform that answers every fetch for every key with the given history
Platform(log, cmts, clFails, cmFails) ==
    [k \in {"k0", "k1", "k2"} |->
        [changelog |-> log, comments |-> cmts,
         changelog_fails |-> clFails, comments_fails |-> cmFails]]

NoKwargs == [n \in {} |-> TRUE]

\* Keyword arguments: any set of waivers switched on, or one passed as False
KwargsDomain ==
    {[n \in S |-> TRUE] : S \in SUBSET WaiverNames}
        \cup {[n \in {w} |-> FALSE] : w \in WaiverNames}

Options(ic, kw, users, after) ==
    [ignore_component |-> ic, kwargs |-> kw, user_list |-> users, added_after |-> after]

\* The fields strictly_identical_to does not read, equal or different
Bystanders ==
    { [line |-> Some(1), author |-> "alice", type |-> "BUG", severity |-> "MAJOR", status |-> "OPEN"],
      [line |-> Some(2), author |-> "alice", type |-> "BUG", severity |-> "MAJOR", status |-> "OPEN"],
      [line |-> Nothing, author |-> "bob", type |-> "CODE_SMELL", severity |-> "MINOR", status |-> "CLOSED"] }

\* Pairs for strictly_identical_to
StrictInputs ==
    /\ \E r \in RuleDomain, h \in {"h1", NoneStr}, j \in JsonDomain :
          a = [BaseFinding EXCEPT !.rule = r, !.hash = h, !.json = j]
    /\ \E k \in {"k0", "k1"}, r \in RuleDomain, h \in {"h1", NoneStr}, m \in {"m1", "m2"},
          c \in {"c1", "c2"}, j \in JsonDomain, o \in Bystanders :
          b = [BaseFinding EXCEPT !.key = k, !.rule = r, !.hash = h, !.message = m,
                                  !.component = c, !.json = j, !.line = o.line,
                                  !.author = o.author, !.type = o.type,
                                  !.severity = o.severity, !.status = o.status]
    /\ \E ic \in BOOLEAN : opts = Options(ic, NoKwargs, Nothing, Nothing)
    /\ server = Platform(<<>>, <<>>, FALSE, FALSE)

\* Pairs for almost_identical_to: every dimension equal or different
AlmostInputs ==
    /\ a = BaseFinding
    /\ \E r \in {"java:S100", NoneStr}, h \in {"h1", "h2"}, m \in {"m1", "m2"},
          j \in {Some(Raw(<<"proj", "f1", "BRANCH", "b1">>, Some(0))),
                 Some(Raw(<<"proj", "f2">>, Nothing))},
          l \in {Some(1), Some(2)}, c \in {"c1", "c2"}, au \in {"alice", "bob"},
          t \in {"BUG", "CODE_SMELL"}, sv \in {"MAJOR", "MINOR"} :
          b = [BaseFinding EXCEPT !.key = "k1", !.rule = r, !.hash = h, !.message = m,
                                  !.json = j, !.line = l, !.component = c,
                                  !.author = au, !.type = t, !.severity = sv]
    /\ \E ic \in BOOLEAN, kw \in KwargsDomain : opts = Options(ic, kw, Nothing, Nothing)
    /\ server = Platform(<<>>, <<>>, FALSE, FALSE)

\* A finding, enriched or not, and an allow-list for can_be_synced
SyncInputs ==
    /\ b = BaseFinding
    /\ \E log \in Logs :
          \/ a = [BaseFinding EXCEPT !.changelog = Some(log)]
               /\ server = Platform(<<>>, <<>>, FALSE, FALSE)
          \/ a = [BaseFinding EXCEPT !.changelog = Nothing]
               /\ server = Platform(log, <<>>, FALSE, FALSE)
    /\ \E users \in {Nothing} \cup {Some(S) : S \in SUBSET Authors} :
          opts = Options(FALSE, NoKwargs, users, Nothing)

\* A finding modified at date 2, enriched or not, and a cutoff before, at or
\* after that date for has_changelog
HistoryInputs ==
    /\ b = BaseFinding
    /\ \E log \in Logs :
          \/ a = [BaseFinding EXCEPT !.changelog = Some(log)]
               /\ server = Platform(<<>>, <<>>, FALSE, FALSE)
          \/ a = [BaseFinding EXCEPT !.changelog = Nothing]
               /\ server = Platform(log, <<>>, FALSE, FALSE)
    /\ \E after \in {Nothing, Some(1), Some(2), Some(3)} :
          opts = Options(FALSE, NoKwargs, Nothing, after)

\* Component identifiers for file(): the main branch, a branch, a pull request,
\* a branch and a pull request whose names hold the marker again, both markers
\* in either order, a marker as last segment
ComponentDomain ==
    { <<"proj", "f1">>,
      <<"proj", "f1", "BRANCH", "b1">>,
      <<"proj", "f1", "PULL_REQUEST", "5">>,
      <<"proj", "f1", "BRANCH", "b1", "BRANCH", "b2">>,
      <<"proj", "f1", "PULL_REQUEST", "5", "PULL_REQUEST", "6">>,
      <<"proj", "f1", "BRANCH", "b1", "PULL_REQUEST", "5">>,
      <<"proj", "f1", "PULL_REQUEST", "5", "BRANCH", "b1">>,
      <<"proj", "f1", "BRANCH">> }

\* A finding whose raw record has a component, a path, both or neither
FileInputs ==
    /\ \E c \in {Nothing} \cup {Some(t) : t \in ComponentDomain}, p \in {Nothing, Some("f3")} :
          a = [BaseFinding EXCEPT !.json = Some([component |-> c, path |-> p,
                                                 startOffset |-> Nothing])]
    /\ b = BaseFinding
    /\ opts = Options(FALSE, NoKwargs, Nothing, Nothing)
    /\ server = Platform(<<>>, <<>>, FALSE, FALSE)

-----------------------------------------------------------------------------
(* Direct calls of the matcher and of the sync policy *)

\* No search_siblings call is in progress
SearchIdle ==
    /\ ss_self = BaseFinding
    /\ findings_list = <<>>
    /\ allowed_users = Nothing
    /\ ss_ignore_component = FALSE
    /\ ss_kwargs = NoKwargs
    /\ phase = "idle"
    /\ idx = 0
    /\ exact_matches = <<>>
    /\ approx_matches = <<>>
    /\ match_but_modified = <<>>

\* No Finding is under construction
LoadIdle ==
    /\ init_data = Nothing
    /\ init_from_export = FALSE
    /\ outcome = "none"
    /\ obj = Nothing
    /\ exported = Nothing

\* No quality gate was read from the platform
GatesIdle ==
    /\ qg_platform = <<>>
    /\ qg_objects = <<>>
    /\ _QUALITY_GATES = <<>>
    /\ _MAP = <<>>
    /\ qg_ret = [called |-> FALSE, name |-> "", obj |-> 0]

\* No get_changelogs call is in progress
EnrichIdle ==
    /\ issue_list = <<>>
    /\ gc_added_after = Nothing
    /\ threads = 0
    /\ queue = <<>>
    /\ unfinished_tasks = 0
    /\ mainPc = "idle"
    /\ started = 0
    /\ workerPc = <<>>
    /\ workerItem = <<>>
    /\ runs = <<>>

Init ==
    /\ op = "none"
    /\ ret = "none"
    /\ (StrictInputs \/ AlmostInputs \/ SyncInputs \/ HistoryInputs \/ FileInputs)
    /\ SearchIdle
    /\ EnrichIdle
    /\ LoadIdle
    /\ GatesIdle

CallStrictlyIdenticalTo ==
    /\ op = "none"
    /\ op' = "strictly_identical_to"
    /\ ret' = StrictlyIdenticalTo(a, b, opts.ignore_component)
    /\ UNCHANGED <<a, b, opts, server, searchVars, enrichVars, loadVars, gateVars>>

CallAlmostIdenticalTo ==
    /\ op = "none"
    /\ op' = "almost_identical_to"
    /\ ret' = AlmostIdenticalTo(a, b, opts.ignore_component, opts.kwargs)
    /\ UNCHANGED <<a, b, opts, server, searchVars, enrichVars, loadVars, gateVars>>

CallCanBeSynced ==
    /\ op = "none"
    /\ op' = "can_be_synced"
    /\ ret' = CanBeSynced(a, server, opts.user_list)
    /\ a' = IF ChangelogRaises(a, server) THEN a ELSE AfterChangelog(a, server)
    /\ UNCHANGED <<b, opts, server, searchVars, enrichVars, loadVars, gateVars>>

CallHasChangelog ==
    /\ op = "none"
    /\ op' = "has_changelog"
    /\ ret' = HasChangelog(a, server, opts.added_after)
    /\ a' = IF IsRaise(HasChangelog(a, server, opts.added_after)) THEN a
            ELSE AfterHasChangelog(a, server, opts.added_after)
    /\ UNCHANGED <<b, opts, server, searchVars, enrichVars, loadVars, gateVars>>

\* a.file()
CallFile ==
    /\ op = "none"
    /\ op' = "file"
    /\ ret' = File(a)
    /\ UNCHANGED <<a, b, opts, server, searchVars, enrichVars, loadVars, gateVars>>

Next ==
    \/ CallFile
    \/ CallStrictlyIdenticalTo
    \/ CallAlmostIdenticalTo
    \/ CallCanBeSynced
    \/ CallHasChangelog

Spec == Init /\ [][Next]_vars

-----------------------------------------------------------------------------
(* search_siblings, one loop iteration per step *)

\* longest candidate population
MaxPop == 2

\* Candidates: the key of the source or another one, hash and component equal
\* to the source's or not, untouched, touched by the bot or by a human, or
\* not enriched yet.
CandidateDomain ==
    { [BaseFinding EXCEPT !.key = k, !.hash = h, !.component = c, !.changelog = cl] :
        k \in {"k0", "k1"}, h \in {"h1", "h2"}, c \in {"c1", "c2"},
        cl \in {Some(<<>>), Some(<<"bot">>), Some(<<"alice">>), Nothing} }

Populations == UNION {[1..n -> CandidateDomain] : n \in 0..MaxPop}

CallsIdle ==
    /\ a = BaseFinding
    /\ b = BaseFinding
    /\ opts = Options(FALSE, NoKwargs, Nothing, Nothing)
    /\ op = "none"
    /\ ret = "none"

\* The call is entered: lines 381-384
InitSearch ==
    /\ CallsIdle
    /\ server = Platform(<<"bob">>, <<>>, FALSE, FALSE)
    /\ ss_self \in {BaseFinding, [BaseFinding EXCEPT !.changelog = Some(<<"alice">>)]}
    /\ findings_list \in Populations
    /\ allowed_users \in {Nothing, Some({}), Some({"bot"})}
    /\ ss_ignore_component \in BOOLEAN
    /\ ss_kwargs \in {NoKwargs, [n \in {"ignore_line"} |-> TRUE]}
    /\ phase = "exact"
    /\ idx = 1
    /\ exact_matches = <<>>
    /\ approx_matches = <<>>
    /\ match_but_modified = <<>>
    /\ EnrichIdle
    /\ LoadIdle
    /\ GatesIdle

Locals ==
    [phase |-> phase, idx |-> idx, exact_matches |-> exact_matches,
     approx_matches |-> approx_matches, match_but_modified |-> match_but_modified,
     findings_list |-> findings_list]

SetLocals(st) ==
    /\ phase' = st.phase
    /\ idx' = st.idx
    /\ exact_matches' = st.exact_matches
    /\ approx_matches' = st.approx_matches
    /\ match_but_modified' = st.match_but_modified
    /\ findings_list' = st.findings_list
    /\ UNCHANGED <<ss_self, allowed_users, ss_ignore_component, ss_kwargs, callVars,
                   server, enrichVars, loadVars, gateVars>>

ExactPassStep ==
    /\ phase = "exact"
    /\ idx <= Len(findings_list)
    /\ SetLocals(ExactStep(Locals, ss_self, server, allowed_users,
                           ss_ignore_component, ss_kwargs))

\* Line 397: the first loop ends without a hit, the second loop starts
ExactPassEnds ==
    /\ phase = "exact"
    /\ idx > Len(findings_list)
    /\ SetLocals([Locals EXCEPT !.phase = "approx", !.idx = 1])

ApproxPassStep ==
    /\ phase = "approx"
    /\ idx <= Len(findings_list)
    /\ SetLocals(ApproxStep(Locals, ss_self, server, allowed_users,
                            ss_ignore_component, ss_kwargs))

\* Line 408
ApproxPassReturns ==
    /\ phase = "approx"
    /\ idx > Len(findings_list)
    /\ SetLocals([Locals EXCEPT !.phase = "returned"])

NextSearch ==
    \/ ExactPassStep
    \/ ExactPassEnds
    \/ ApproxPassStep
    \/ ApproxPassReturns

SpecSearch == InitSearch /\ [][NextSearch]_vars

-----------------------------------------------------------------------------
(* Properties of the direct calls, checked under Spec *)

CalledCanBeSynced == op = "can_be_synced"

\* The changelog of the receiver once can_be_synced has run
LogOfA == Get(a.changelog)

\* C3: can_be_synced with the allow-list absent (None) or empty returns true
\* if and only if the finding's changelog has zero entries; any entry, whoever
\* its author, makes it false.
C3_NoAllowListSyncsIffNoChangelog ==
    (CalledCanBeSynced /\ (opts.user_list = Nothing \/ opts.user_list = Some({})))
        => /\ ret \in {"True", "False"}
           /\ ret = "True" <=> Len(LogOfA) = 0

\* C3 witness: no allow-list, a changelog of one entry written by the sync bot
\* itself, fetched by the call: not synchronizable.
C3_Witness ==
    /\ CalledCanBeSynced
    /\ opts.user_list = Nothing
    /\ LogOfA = <<"bot">>
    /\ server["k0"].changelog = <<"bot">>
    /\ ret = "False"

\* C4: can_be_synced with a non-empty allow-list returns true if and only if
\* the author of every changelog entry is a member of the allow-list; with an
\* empty changelog it returns true.
C4_AllowListSyncsIffAllAuthorsAllowed ==
    (CalledCanBeSynced /\ IsSome(opts.user_list) /\ opts.user_list # Some({}))
        => ret = PyBool(\A i \in 1..Len(LogOfA) : LogOfA[i] \in Get(opts.user_list))

\* C4 witness: the bot and a human both changed the finding, only the bot is
\* allowed: not synchronizable.
C4_Witness ==
    /\ CalledCanBeSynced
    /\ opts.user_list = Some({"bot"})
    /\ LogOfA = <<"bot", "alice">>
    /\ ret = "False"

CalledAlmost == op = "almost_identical_to"

Waived(name) == KwGet(opts.kwargs, name)

\* The score as the claim states it, for the pair of the call
C5_Score ==
      (IF a.message = b.message \/ Waived("ignore_message") THEN 2 ELSE 0)
    + (IF File(a) = File(b) THEN 2 ELSE 0)
    + (IF a.line = b.line \/ Waived("ignore_line") THEN 1 ELSE 0)
    + (IF a.component = b.component \/ opts.ignore_component THEN 1 ELSE 0)
    + (IF a.author = b.author \/ Waived("ignore_author") THEN 1 ELSE 0)
    + (IF a.type = b.type \/ Waived("ignore_type") THEN 1 ELSE 0)
    + (IF a.severity = b.severity \/ Waived("ignore_severity") THEN 1 ELSE 0)

\* The points of the dimensions on which the pair differs
C5_MismatchWeight ==
      (IF a.message # b.message THEN 2 ELSE 0)
    + (IF File(a) # File(b) THEN 2 ELSE 0)
    + (IF a.line # b.line THEN 1 ELSE 0)
    + (IF a.component # b.component THEN 1 ELSE 0)
    + (IF a.author # b.author THEN 1 ELSE 0)
    + (IF a.type # b.type THEN 1 ELSE 0)
    + (IF a.severity # b.severity THEN 1 ELSE 0)

C5_NoWaiver ==
    /\ ~opts.ignore_component
    /\ \A n \in WaiverNames : ~Waived(n)

\* C5: for two findings that have a raw record (so that both file paths
\* exist), almost_identical_to is true if and only if rule and hash are equal
\* and the score (2 message, 2 file, 1 each line, component, author, type,
\* severity, waivers counting as equal) is at least 7; a pair differing in rule
\* or hash is rejected whatever the rest; with no waiver a pair with equal
\* rule and hash is accepted exactly when its mismatches weigh at most 2.
C5_AlmostIdenticalIffGateAndScore ==
    /\ (CalledAlmost /\ (a.rule # b.rule \/ a.hash # b.hash)) => ret = "False"
    /\ (CalledAlmost /\ IsSome(a.json) /\ IsSome(b.json))
          => /\ ret = PyBool(a.rule = b.rule /\ a.hash = b.hash /\ C5_Score >= 7)
             /\ (C5_NoWaiver /\ a.rule = b.rule /\ a.hash = b.hash)
                   => (ret = "True" <=> C5_MismatchWeight <= 2)

\* C5 witness: equal rule and hash, file path and line differ (3 points lost),
\* the line is waived: score 7, accepted.
C5_Witness ==
    /\ CalledAlmost
    /\ a.rule = b.rule /\ a.hash = b.hash
    /\ File(a) # File(b) /\ a.line # b.line
    /\ Waived("ignore_line")
    /\ C5_Score = 7
    /\ ret = "True"

CalledStrictly == op = "strictly_identical_to"

NoStartOffset(f) == IsSome(f.json) /\ ~IsSome(Get(f.json).startOffset)

\* C6: for two findings with different keys, each with a raw record that
\* carries no text-range start offset, strictly_identical_to is true if and
\* only if rule, hash, message and derived file path are equal and (component
\* is equal or ignore_component is set).
C6_StrictlyIdenticalIffFieldsEqual ==
    (CalledStrictly /\ a.key # b.key /\ NoStartOffset(a) /\ NoStartOffset(b))
        => (ret = "True" <=>
                /\ a.rule = b.rule
                /\ a.hash = b.hash
                /\ a.message = b.message
                /\ File(a) = File(b)
                /\ (a.component = b.component \/ opts.ignore_component))

\* C7: strictly_identical_to returns true for any two findings that have the
\* same key, whatever their other fields are.
C7_SameKeyIsStrictlyIdentical ==
    (CalledStrictly /\ a.key = b.key) => ret = "True"

\* C7 witness: the same key, no rule, no hash and no raw record on the
\* receiver, and another message on the other finding.
C7_Witness ==
    /\ CalledStrictly
    /\ a.key = b.key
    /\ a.rule = NoneStr /\ a.hash = NoneStr /\ a.json = Nothing
    /\ a.message # b.message
    /\ ret = "True"

-----------------------------------------------------------------------------
(* Properties of search_siblings, checked under SpecSearch *)

Returned == phase = "returned"

Min(S) == CHOOSE x \in S : \A y \in S : x <= y

\* Positions of the candidates, other than the source itself, that are
\* strictly identical to the source
StrictPositions ==
    {p \in 1..Len(findings_list) :
        /\ findings_list[p].key # ss_self.key
        /\ StrictlyIdenticalTo(findings_list[p], ss_self, ss_ignore_component) = "True"}

FirstStrict == Min(StrictPositions)

Syncable(p) == CanBeSynced(findings_list[p], server, allowed_users) = "True"

AllResults == exact_matches \o approx_matches \o match_but_modified

\* C1: the exact pass scans the candidates in input order and stops at the
\* first candidate with another key that is strictly identical to the source;
\* the call returns that candidate alone, in exact_matches if it can be synced
\* and in match_but_modified otherwise, and no later candidate is in any list.
C1_FirstExactMatchWins ==
    /\ phase = "exact" => \A p \in StrictPositions : p >= idx
    /\ (Returned /\ StrictPositions # {})
          => /\ idx = FirstStrict
             /\ AllResults = <<FirstStrict>>
             /\ exact_matches = (IF Syncable(FirstStrict) THEN <<FirstStrict>> ELSE <<>>)
             /\ match_but_modified = (IF Syncable(FirstStrict) THEN <<>> ELSE <<FirstStrict>>)

\* C1 witness: two candidates, both strictly identical to the source; the
\* first was modified by a human, the second is untouched: only the first is
\* returned, as modified.
C1_Witness ==
    /\ Returned
    /\ StrictPositions = {1, 2}
    /\ ~Syncable(1) /\ Syncable(2)
    /\ match_but_modified = <<1>>
    /\ exact_matches = <<>>

\* Positions of the candidates that are almost identical to the source
AlmostPositions ==
    {p \in 1..Len(findings_list) :
        AlmostIdenticalTo(findings_list[p], ss_self, ss_ignore_component, ss_kwargs) = "True"}

\* C2: exact_matches and approx_matches are never both non-empty, and when
\* some candidate (with another key) is strictly identical to the source the
\* approximate pass does not run and approx_matches is empty, whether or not
\* that candidate can be synced.
C2_ExactExcludesApprox ==
    /\ ~(exact_matches # <<>> /\ approx_matches # <<>>)
    /\ StrictPositions # {} => (phase # "approx" /\ approx_matches = <<>>)

\* C2 witness: the first candidate is almost but not strictly identical and
\* could be synced, the second is strictly identical and cannot: the call
\* returns the second as modified and no approximate match.
C2_Witness ==
    /\ Returned
    /\ StrictPositions = {2}
    /\ 1 \in AlmostPositions /\ Syncable(1)
    /\ ~Syncable(2)
    /\ match_but_modified = <<2>>
    /\ approx_matches = <<>>

-----------------------------------------------------------------------------
(* History enrichment: get_changelogs and its worker threads *)

\* most findings in a batch
MaxFindings == 2

\* most worker threads
MaxThreads == 2

\* most calls of get_changelogs on the same list
MaxRuns == 2

\* has_comments(): len(self.comments()) > 0
HasComments(f, srv) ==
    IF CommentsRaises(f, srv) THEN "!RemoteFetchError"
    ELSE PyBool(Len(Get(AfterComments(f, srv).comments)) > 0)

KeyOf(p) == <<"k0", "k1", "k2">>[p]

\* A platform on which the fetches named by modes[p] ("none", "changelog",
\* "comments") fail for the finding at position p
PlatformFailing(modes) ==
    [k \in {"k0", "k1", "k2"} |->
        [changelog |-> <<"alice">>, comments |-> <<"bob">>,
         changelog_fails |-> \E p \in DOMAIN modes : KeyOf(p) = k /\ modes[p] = "changelog",
         comments_fails |-> \E p \in DOMAIN modes : KeyOf(p) = k /\ modes[p] = "comments"]]

\* A finding as constructed from a search: no changelog, no comments yet
Unenriched(p, date) ==
    [BaseFinding EXCEPT !.key = KeyOf(p), !.changelog = Nothing, !.comments = Nothing,
                        !.modification_date = date]

\* get_changelogs(issue_list, added_after, threads) is called
InitEnrich ==
    /\ CallsIdle
    /\ SearchIdle
    /\ LoadIdle
    /\ GatesIdle
    /\ \E n \in 0..MaxFindings :
          /\ \E dates \in [1..n -> {1, 2}] :
                issue_list = [p \in 1..n |-> Unenriched(p, dates[p])]
          /\ \E modes \in [1..n -> {"none", "changelog", "comments"}] :
                server = PlatformFailing(modes)
    /\ gc_added_after \in {Nothing, Some(2)}
    /\ threads \in 0..MaxThreads
    /\ queue = <<>>
    /\ unfinished_tasks = 0
    /\ mainPc = "call"
    /\ started = 0
    /\ workerPc = [w \in 1..threads |-> "unstarted"]
    /\ workerItem = [w \in 1..threads |-> 0]
    /\ runs = <<>>

EnrichFrame == UNCHANGED <<callVars, searchVars, server, gc_added_after, threads, loadVars, gateVars>>

\* Mutant: no test for the empty list (lines 451-452 left out)
MainCall_NoEarlyReturn ==
    /\ mainPc = "call"
    /\ mainPc' = "put"
    /\ UNCHANGED <<issue_list, queue, unfinished_tasks, started, workerPc, workerItem, runs>>
    /\ EnrichFrame

\* Lines 451-452: an empty list returns at once
MainCall ==
    /\ mainPc = "call"
    /\ mainPc' = IF Len(issue_list) = 0 THEN "returned" ELSE "put"
    /\ runs' = IF Len(issue_list) = 0 THEN Append(runs, issue_list) ELSE runs
    /\ UNCHANGED <<issue_list, queue, unfinished_tasks, started, workerPc, workerItem>>
    /\ EnrichFrame

\* Lines 454-456: the queue is created and every finding is put on it
MainPut ==
    /\ mainPc = "put"
    /\ queue' = [p \in 1..Len(issue_list) |-> p]
    /\ unfinished_tasks' = Len(issue_list)
    /\ mainPc' = IF threads = 0 THEN "join" ELSE "start"
    /\ UNCHANGED <<issue_list, started, workerPc, workerItem, runs>>
    /\ EnrichFrame

\* Lines 457-462: one more daemon thread is started
MainStartThread ==
    /\ mainPc = "start"
    /\ started < threads
    /\ started' = started + 1
    /\ workerPc' = [workerPc EXCEPT ![started + 1] = "check"]
    /\ mainPc' = IF started + 1 = threads THEN "join" ELSE "start"
    /\ UNCHANGED <<issue_list, queue, unfinished_tasks, workerItem, runs>>
    /\ EnrichFrame

\* Mutant: get_changelogs does not wait (q.join() left out)
JoinMayReturn_NoWait(n) == TRUE

\* Queue.join() returns once every item put has been marked task_done()
JoinMayReturn(n) == n = 0

\* Line 463
MainJoin ==
    /\ mainPc = "join"
    /\ JoinMayReturn(unfinished_tasks)
    /\ mainPc' = "returned"
    /\ runs' = Append(runs, issue_list)
    /\ UNCHANGED <<issue_list, queue, unfinished_tasks, started, workerPc, workerItem>>
    /\ EnrichFrame

\* Line 441: while not queue.empty()
WorkerCheck(w) ==
    /\ workerPc[w] = "check"
    /\ workerPc' = [workerPc EXCEPT ![w] = IF queue = <<>> THEN "exited" ELSE "get"]
    /\ UNCHANGED <<issue_list, queue, unfinished_tasks, mainPc, started, workerItem, runs>>
    /\ EnrichFrame

\* Mutant: the worker reads the oldest item and leaves it on the queue
WorkerGet_Peek(w) ==
    /\ workerPc[w] = "get"
    /\ queue # <<>>
    /\ workerItem' = [workerItem EXCEPT ![w] = Head(queue)]
    /\ workerPc' = [workerPc EXCEPT ![w] = "has_changelog"]
    /\ UNCHANGED <<issue_list, queue, unfinished_tasks, mainPc, started, runs>>
    /\ EnrichFrame

\* Line 442: queue.get() blocks while the queue is empty
WorkerGet(w) ==
    /\ workerPc[w] = "get"
    /\ queue # <<>>
    /\ workerItem' = [workerItem EXCEPT ![w] = Head(queue)]
    /\ queue' = Tail(queue)
    /\ workerPc' = [workerPc EXCEPT ![w] = "has_changelog"]
    /\ UNCHANGED <<issue_list, unfinished_tasks, mainPc, started, runs>>
    /\ EnrichFrame

\* Line 443: an exception of the fetch is not caught and ends the thread
WorkerHasChangelog(w) ==
    /\ workerPc[w] = "has_changelog"
    /\ IF IsRaise(HasChangelog(issue_list[workerItem[w]], server, gc_added_after))
       THEN /\ workerPc' = [workerPc EXCEPT ![w] = "crashed"]
            /\ UNCHANGED issue_list
       ELSE /\ workerPc' = [workerPc EXCEPT ![w] = "has_comments"]
            /\ issue_list' = [issue_list EXCEPT ![workerItem[w]] =
                                  AfterHasChangelog(@, server, gc_added_after)]
    /\ UNCHANGED <<queue, unfinished_tasks, mainPc, started, workerItem, runs>>
    /\ EnrichFrame

\* Line 444
WorkerHasComments(w) ==
    /\ workerPc[w] = "has_comments"
    /\ IF IsRaise(HasComments(issue_list[workerItem[w]], server))
       THEN /\ workerPc' = [workerPc EXCEPT ![w] = "crashed"]
            /\ UNCHANGED issue_list
       ELSE /\ workerPc' = [workerPc EXCEPT ![w] = "task_done"]
            /\ issue_list' = [issue_list EXCEPT ![workerItem[w]] = AfterComments(@, server)]
    /\ UNCHANGED <<queue, unfinished_tasks, mainPc, started, workerItem, runs>>
    /\ EnrichFrame

\* Mutant: the worker does not mark its item done (line 445 left out)
WorkerTaskDone_NotMarked(w) ==
    /\ workerPc[w] = "task_done"
    /\ workerPc' = [workerPc EXCEPT ![w] = "check"]
    /\ UNCHANGED <<issue_list, queue, unfinished_tasks, mainPc, started, workerItem, runs>>
    /\ EnrichFrame

\* Line 445
WorkerTaskDone(w) ==
    /\ workerPc[w] = "task_done"
    /\ unfinished_tasks' = unfinished_tasks - 1
    /\ workerPc' = [workerPc EXCEPT ![w] = "check"]
    /\ UNCHANGED <<issue_list, queue, mainPc, started, workerItem, runs>>
    /\ EnrichFrame

\* The caller calls get_changelogs again on the same list, with the same
\* number of threads and any cutoff: a new queue and new threads (the threads
\* of the call before have exited or wait on the queue of that call for ever)
CallAgain ==
    /\ mainPc = "returned"
    /\ Len(runs) < MaxRuns
    /\ mainPc' = "call"
    /\ gc_added_after' \in {Nothing, Some(2)}
    /\ queue' = <<>>
    /\ unfinished_tasks' = 0
    /\ started' = 0
    /\ workerPc' = [w \in 1..threads |-> "unstarted"]
    /\ workerItem' = [w \in 1..threads |-> 0]
    /\ UNCHANGED <<issue_list, threads, runs, callVars, searchVars, server, loadVars, gateVars>>

NextEnrich ==
    \/ MainCall
    \/ CallAgain
    \/ MainPut
    \/ MainStartThread
    \/ MainJoin
    \/ \E w \in 1..threads : WorkerCheck(w)
    \/ \E w \in 1..threads : WorkerGet(w)
    \/ \E w \in 1..threads : WorkerHasChangelog(w)
    \/ \E w \in 1..threads : WorkerHasComments(w)
    \/ \E w \in 1..threads : WorkerTaskDone(w)

SpecEnrich == InitEnrich /\ [][NextEnrich]_vars

\* The steps of the main thread inside get_changelogs
Main == MainCall \/ MainPut \/ MainStartThread \/ MainJoin

\* The steps of worker thread w: __get_changelog, lines 439-446
Worker(w) ==
    /\ w \in 1..threads
    /\ \/ WorkerCheck(w)
       \/ WorkerGet(w)
       \/ WorkerHasChangelog(w)
       \/ WorkerHasComments(w)
       \/ WorkerTaskDone(w)

\* The scheduler of the threads is fair: a thread that can take a step is not
\* kept from it for ever. The caller is free to call again or not.
FairEnrich == WF_vars(Main) /\ \A w \in 1..MaxThreads : WF_vars(Worker(w))

SpecEnrichFair == InitEnrich /\ [][NextEnrich]_vars /\ FairEnrich

-----------------------------------------------------------------------------
(* Properties of get_changelogs, checked under SpecEnrich *)

MainReturned == mainPc = "returned"

Positions == 1..Len(issue_list)

\* The finding at position p has left the queue
Taken(p) == \A q \in 1..Len(queue) : queue[q] # p

\* A worker holds the finding at position p and has not finished its two
\* calls on it (or died in one of them)
InWork(p) ==
    \E w \in 1..threads :
        /\ workerItem[w] = p
        /\ workerPc[w] \in {"has_changelog", "has_comments", "crashed"}

\* C8: get_changelogs does not return to its caller before every finding of
\* the (non-empty) input list has been taken from the queue and a worker has
\* completed both has_changelog and has_comments on it.
C8_JoinIsABarrier ==
    (MainReturned /\ Len(issue_list) > 0)
        => \A p \in Positions : Taken(p) /\ ~InWork(p)

\* C8 witness: two findings, two workers, each worker processed one of the
\* findings, and the call has returned.
C8_Witness ==
    /\ MainReturned
    /\ Len(issue_list) = 2 /\ threads = 2
    /\ workerItem[1] = 2 /\ workerItem[2] = 1
    /\ \A p \in Positions : IsSome(issue_list[p].comments)

SomeFetchFails ==
    \E p \in Positions :
        server[KeyOf(p)].changelog_fails \/ server[KeyOf(p)].comments_fails

\* Nothing can happen any more: every worker has exited, has died or waits
\* for an item on the empty queue, and the main thread has returned or waits
\* in join() for tasks that nobody will mark done.
Quiescent ==
    /\ mainPc \in {"join", "returned"}
    /\ mainPc = "join" => unfinished_tasks > 0
    /\ \A w \in 1..threads :
          \/ workerPc[w] \in {"exited", "crashed"}
          \/ workerPc[w] = "get" /\ queue = <<>>

\* The history of a finding is populated (possibly empty), not absent
Enriched(f) == IsSome(f.changelog) /\ IsSome(f.comments)

\* C9: if the changelog or comments fetch of a finding fails, the failure is
\* caught (no worker dies of it), every other finding of the batch is still
\* enriched, and get_changelogs returns to its caller: once the workers have
\* run to their end, the call has returned.
C9_FetchFailureIsIsolated ==
    (SomeFetchFails /\ threads >= 1 /\ Quiescent)
        => /\ MainReturned
           /\ \A w \in 1..threads : workerPc[w] # "crashed"
           /\ \A p \in Positions :
                 (~server[KeyOf(p)].changelog_fails /\ ~server[KeyOf(p)].comments_fails)
                     => IsSome(issue_list[p].comments)

\* C10 as stated: when get_changelogs returns, every finding of the batch has
\* both its changelog and its comments populated, for any added_after.
C10_AllEnrichedOnReturn ==
    MainReturned => \A p \in Positions : Enriched(issue_list[p])

\* C10 amended: when get_changelogs returns, every finding of the batch has
\* its comments populated, and its changelog populated unless added_after is
\* given and is strictly later than the finding's modification date.
C10_EnrichedOnReturnUnlessCutOff ==
    MainReturned =>
        \A p \in Positions :
            /\ IsSome(issue_list[p].comments)
            /\ \/ IsSome(issue_list[p].changelog)
               \/ /\ gc_added_after # Nothing
                  /\ Get(gc_added_after) > issue_list[p].modification_date

\* C10 witness: with a cutoff, the call has returned; the finding modified
\* before the cutoff has no changelog, the one modified at the cutoff has.
C10_Witness ==
    /\ MainReturned
    /\ Len(issue_list) = 2
    /\ gc_added_after = Some(2)
    /\ issue_list[1].modification_date = 1 /\ issue_list[1].changelog = Nothing
    /\ issue_list[2].modification_date = 2 /\ issue_list[2].changelog = Some(<<"alice">>)
    /\ \A p \in Positions : IsSome(issue_list[p].comments)

-----------------------------------------------------------------------------
(* Waivers and self-exclusion in search_siblings, checked under SpecSearch *)

\* Some waiver is switched on in the call
SomeWaiverSet == \E n \in DOMAIN ss_kwargs : ss_kwargs[n]

\* The population holds a candidate other than the source
OtherCandidate == \E p \in 1..Len(findings_list) : findings_list[p].key # ss_self.key

\* The positions returned in any of the three lists
ResultPositions == {AllResults[q] : q \in 1..Len(AllResults)}

\* C11: search_siblings called with a waiver set, on a population holding at
\* least one candidate other than the source, does not raise; it returns the
\* triple, and when no candidate is strictly identical the candidates
\* classified are those that almost_identical_to accepts under the waivers.
C11_WaiversAccepted ==
    (SomeWaiverSet /\ OtherCandidate)
        => /\ phase # "raised"
           /\ (Returned /\ StrictPositions = {}) => ResultPositions = AlmostPositions

\* C12: a candidate whose key equals the key of the source finding is never
\* placed in exact_matches, approx_matches or match_but_modified, in the
\* first loop and in the second loop alike.
C12_SourceExcludedByKey ==
    \A p \in ResultPositions : findings_list[p].key # ss_self.key

-----------------------------------------------------------------------------
(* Waivers of almost_identical_to, checked under Spec *)

\* The keyword arguments with one more waiver switched on
WithWaiver(kwargs, name) ==
    [n \in DOMAIN kwargs \cup {name} |-> IF n = name THEN TRUE ELSE kwargs[n]]

\* The keyword arguments with one waiver left out
WithoutWaiver(kwargs, name) == [n \in DOMAIN kwargs \ {name} |-> kwargs[n]]

\* The points of the dimension a waiver stands for, and whether the pair of
\* the call differs on it
C13_Weight(name) == IF name = "ignore_message" THEN 2 ELSE 1

C13_Differs(name) ==
    IF name = "ignore_message" THEN a.message # b.message
    ELSE IF name = "ignore_line" THEN a.line # b.line
    ELSE IF name = "ignore_author" THEN a.author # b.author
    ELSE IF name = "ignore_type" THEN a.type # b.type
    ELSE a.severity # b.severity

C13_ScoreWith(ic, kwargs) == Score(a, b, ic, kwargs)

\* C13: for the pair and the options of an almost_identical_to call (both
\* findings with a raw record), switching on one more waiver, ignore_component
\* included, never lowers the score and never turns a match into a non-match,
\* and a waiver that is on contributes the full points of its dimension
\* whether or not the values are equal.
C13_WaiversAreMonotonic ==
    (CalledAlmost /\ IsSome(a.json) /\ IsSome(b.json) /\ a.rule = b.rule /\ a.hash = b.hash)
        => /\ \A n \in WaiverNames :
                /\ C13_ScoreWith(opts.ignore_component, WithWaiver(opts.kwargs, n))
                       >= C13_ScoreWith(opts.ignore_component, opts.kwargs)
                /\ ret = "True"
                       => AlmostIdenticalTo(a, b, opts.ignore_component,
                                            WithWaiver(opts.kwargs, n)) = "True"
                /\ Waived(n)
                       => C13_ScoreWith(opts.ignore_component, opts.kwargs)
                            = C13_ScoreWith(opts.ignore_component, WithoutWaiver(opts.kwargs, n))
                                + (IF C13_Differs(n) THEN C13_Weight(n) ELSE 0)
           /\ C13_ScoreWith(TRUE, opts.kwargs) >= C13_ScoreWith(opts.ignore_component, opts.kwargs)
           /\ ret = "True" => AlmostIdenticalTo(a, b, TRUE, opts.kwargs) = "True"
           /\ C13_ScoreWith(TRUE, opts.kwargs)
                 = C13_ScoreWith(FALSE, opts.kwargs) + (IF a.component # b.component THEN 1 ELSE 0)

\* C13 witness: message and line differ, the line is waived and the pair is
\* rejected with 6 points; the message waiver on top makes it a match.
C13_Witness ==
    /\ CalledAlmost
    /\ a.rule = b.rule /\ a.hash = b.hash
    /\ a.message # b.message /\ a.line # b.line
    /\ Waived("ignore_line") /\ ~Waived("ignore_message")
    /\ C13_ScoreWith(opts.ignore_component, opts.kwargs) < MatchThreshold
    /\ ret = "False"
    /\ AlmostIdenticalTo(a, b, opts.ignore_component,
                         WithWaiver(opts.kwargs, "ignore_message")) = "True"

-----------------------------------------------------------------------------
(* Ownership of a finding during get_changelogs, checked under SpecEnrich *)

\* Worker w has taken the finding at position p and not yet marked it done
Holds(w, p) ==
    /\ workerItem[w] = p
    /\ workerPc[w] \in {"has_changelog", "has_comments", "task_done", "crashed"}

Holders(p) == {w \in 1..threads : Holds(w, p)}

QueueSlots(p) == {q \in 1..Len(queue) : queue[q] = p}

\* An entry is on the queue once or with one worker, never both, never twice
C14_OneOwner ==
    \A p \in Positions : Cardinality(QueueSlots(p)) + Cardinality(Holders(p)) <= 1

\* A step takes entries off the queue from its head only, gives the entry
\* taken to the worker that took it, and writes the history of an entry only
\* from the worker that holds it
C14_Step ==
    /\ (mainPc # "put" /\ queue' # queue) => (queue # <<>> /\ queue' = Tail(queue))
    /\ \A w \in 1..threads :
          (workerItem'[w] # workerItem[w] /\ workerItem'[w] # 0)
              => (queue # <<>> /\ workerItem'[w] = Head(queue) /\ queue' = Tail(queue))
    /\ \A p \in Positions :
          issue_list'[p] # issue_list[p]
              => \E w \in 1..threads :
                    /\ Holders(p) = {w}
                    /\ workerPc[w] \in {"has_changelog", "has_comments"}
                    /\ workerPc'[w] # workerPc[w]

\* C14: under every interleaving of the workers each entry of the input list
\* is dequeued by one worker only, that worker alone calls has_changelog and
\* has_comments on it and writes its history, and when get_changelogs returns
\* every entry has been dequeued.
C14_OneWorkerPerFinding ==
    /\ [](C14_OneOwner /\ ((MainReturned /\ Len(issue_list) > 0) => \A p \in Positions : Taken(p)))
    /\ [][C14_Step]_vars

\* C14 witness: two workers at work at the same time, each on its own finding
C14_Witness ==
    /\ threads = 2
    /\ workerPc[1] = "has_comments" /\ workerPc[2] = "has_changelog"
    /\ workerItem[1] = 1 /\ workerItem[2] = 2
    /\ IsSome(issue_list[1].changelog)

-----------------------------------------------------------------------------
(* The cutoff of has_changelog, checked under Spec *)

\* The cutoff is given and is strictly later than the date of the finding
C15_CutOff(f, added_after) ==
    added_after # Nothing /\ Get(added_after) > f.modification_date

\* What a has_changelog call does to its receiver and what it returns
C15_Step ==
    (op = "none" /\ op' = "has_changelog")
        => IF C15_CutOff(a, opts.added_after)
           THEN ret' = "False" /\ a' = a
           ELSE /\ a'.changelog # Nothing
                /\ a.changelog = Nothing => a'.changelog = Some(server[a.key].changelog)
                /\ ret' = PyBool(Len(Get(a'.changelog)) > 0)

\* C15: has_changelog(added_after) returns false and leaves the changelog
\* unfetched when added_after is given and strictly later than the finding's
\* modification date; in every other case (modified at the cutoff, after it,
\* or no cutoff) the changelog is fetched, if it was not yet, and the result
\* says whether it has entries.
C15_CutOffIsStrict == [][C15_Step]_vars

\* C15 witness: a finding modified exactly at the cutoff, not enriched before
\* the call: its changelog of one entry was fetched and the call returned true.
C15_Witness ==
    /\ op = "has_changelog"
    /\ opts.added_after = Some(a.modification_date)
    /\ server[a.key].changelog = <<"alice">>
    /\ a.changelog = Some(<<"alice">>)
    /\ ret = "True"

-----------------------------------------------------------------------------
(* get_changelogs called again, checked under SpecEnrich *)

-----------------------------------------------------------------------------
(* What search_siblings writes, checked under SpecSearch *)

C17_OnlyFetched(p) ==
    \/ findings_list'[p] = findings_list[p]
    \/ /\ findings_list[p].changelog = Nothing
       /\ p = idx
       /\ findings_list'[p] =
              [findings_list[p] EXCEPT !.changelog = Some(server[findings_list[p].key].changelog)]

-----------------------------------------------------------------------------
(* Finding construction: __init__, _load, _load_common, _load_from_search,
   _load_from_export *)

\* Values of the line field of a raw record: JSON null, a number, a string
\* (the sequence of its characters), an array
PyNone == [none |-> TRUE]
PyInt(n) == [int |-> n]
PyStr(cs) == [str |-> cs]
PyList == [list |-> TRUE]

IsPyInt(v) == DOMAIN v = {"int"}
IsPyStr(v) == DOMAIN v = {"str"}

Digits == <<"0", "1", "2", "3", "4", "5", "6", "7", "8", "9">>

IsDigit(ch) == \E d \in 1..Len(Digits) : Digits[d] = ch

DigitValue(ch) == (CHOOSE d \in 1..Len(Digits) : Digits[d] = ch) - 1

RECURSIVE DigitsValue(_)
DigitsValue(cs) ==
    IF cs = <<>> THEN 0
    ELSE DigitsValue(SubSeq(cs, 1, Len(cs) - 1)) * 10 + DigitValue(cs[Len(cs)])

RECURSIVE LStrip(_)
LStrip(cs) == IF cs # <<>> /\ cs[1] = " " THEN LStrip(Tail(cs)) ELSE cs

RECURSIVE RStrip(_)
RStrip(cs) ==
    IF cs # <<>> /\ cs[Len(cs)] = " " THEN RStrip(SubSeq(cs, 1, Len(cs) - 1)) ELSE cs

ValueError == [error |-> "ValueError"]

\* int(s) for a string: surrounding white space, an optional sign, then
\* decimal digits and nothing else; ValueError otherwise
IntOfStr(cs) ==
    LET s == RStrip(LStrip(cs))
        signed == s # <<>> /\ s[1] \in {"-", "+"}
        ds == IF signed THEN Tail(s) ELSE s
    IN  IF ds # <<>> /\ \A i \in 1..Len(ds) : IsDigit(ds[i])
        THEN PyInt(IF signed /\ s[1] = "-" THEN 0 - DigitsValue(ds) ELSE DigitsValue(ds))
        ELSE ValueError

NullString == PyStr(<<"n", "u", "l", "l">>)

\* jsondata.get(name, default) on an optional field of the record
GetOr(field, default) == IF IsSome(field) THEN Get(field) ELSE default

\* Lines 120-127: the line after _load_common, or [error |-> "TypeError"]
\* when int() raises an exception that "except ValueError" does not catch
LoadLine(jsondata) ==
    LET raw == GetOr(jsondata.line, GetOr(jsondata.lineNumber, PyNone))
        line == IF raw = NullString THEN PyNone ELSE raw
    IN  IF line = PyNone THEN PyNone
        ELSE IF IsPyInt(line) THEN line
        ELSE IF IsPyStr(line)
        THEN (IF IntOfStr(line.str) = ValueError THEN line ELSE IntOfStr(line.str))
        ELSE [error |-> "TypeError"]

\* Lines 78-97: every field None
NewFinding(key) ==
    [ key |-> key, severity |-> NoneStr, type |-> NoneStr, author |-> NoneStr,
      status |-> NoneStr, resolution |-> NoneStr, rule |-> NoneStr, projectKey |-> NoneStr,
      changelog |-> Nothing, comments |-> Nothing, line |-> PyNone, component |-> NoneStr,
      message |-> NoneStr, creation_date |-> Nothing, modification_date |-> Nothing,
      hash |-> NoneStr, branch |-> Nothing, pull_request |-> Nothing, json |-> Nothing ]

\* The outcome of a loading step: the exception raised ("none": it returned)
\* and the object as the step left it
Loaded(self) == [raised |-> "none", self |-> self]
Raised(exc, self) == [raised |-> exc, self |-> self]

\* Mutant: the status is read like the optional fields, jsondata.get("status", None)
LoadCommon_StatusOptional(self, jsondata) ==
    LET s1 == [self EXCEPT !.json = Some(jsondata),
                           !.author = GetOr(jsondata.author, NoneStr),
                           !.type = GetOr(jsondata.type, NoneStr),
                           !.severity = GetOr(jsondata.severity, NoneStr),
                           !.message = GetOr(jsondata.message, NoneStr)]
        s2 == [s1 EXCEPT !.status = GetOr(jsondata.status, NoneStr),
                         !.resolution = GetOr(jsondata.resolution, NoneStr),
                         !.rule = GetOr(jsondata.rule, GetOr(jsondata.ruleReference, NoneStr))]
    IN  IF LoadLine(jsondata) = [error |-> "TypeError"]
        THEN Raised("!TypeError", [s2 EXCEPT !.line = GetOr(jsondata.line, GetOr(jsondata.lineNumber, PyNone))])
        ELSE Loaded([s2 EXCEPT !.line = LoadLine(jsondata)])

\* Lines 107-127, on an object whose _json is None
LoadCommon(self, jsondata) ==
    LET s1 == [self EXCEPT !.json = Some(jsondata),
                           !.author = GetOr(jsondata.author, NoneStr),
                           !.type = GetOr(jsondata.type, NoneStr),
                           !.severity = GetOr(jsondata.severity, NoneStr),
                           !.message = GetOr(jsondata.message, NoneStr)]
        s2 == [s1 EXCEPT !.status = GetOr(jsondata.status, NoneStr),
                         !.resolution = GetOr(jsondata.resolution, NoneStr),
                         !.rule = GetOr(jsondata.rule, GetOr(jsondata.ruleReference, NoneStr))]
    IN  IF ~IsSome(jsondata.status) THEN Raised("!KeyError", s1)
        ELSE IF LoadLine(jsondata) = [error |-> "TypeError"]
        THEN Raised("!TypeError", [s2 EXCEPT !.line = GetOr(jsondata.line, GetOr(jsondata.lineNumber, PyNone))])
        ELSE Loaded([s2 EXCEPT !.line = LoadLine(jsondata)])

\* util.string_to_date: the timestamps of the platform, numbered in time order
DateStrings == <<"2024-01-01T00:00:00+0000", "2024-01-02T00:00:00+0000">>

StringToDate(str) == CHOOSE d \in 1..Len(DateStrings) : DateStrings[d] = str

\* re.sub("^BRANCH:", "", branch) on the colon-separated tokens of the name
StripBranchPrefix(tokens) ==
    IF Len(tokens) >= 2 /\ tokens[1] = "BRANCH" THEN Tail(tokens) ELSE tokens

\* Lines 129-138
LoadFromSearch(self, jsondata) ==
    LET c == LoadCommon(self, jsondata) IN
    IF c.raised # "none" THEN c
    ELSE IF ~IsSome(jsondata.project) THEN Raised("!KeyError", c.self)
    ELSE LET s1 == [c.self EXCEPT !.projectKey = Get(jsondata.project)] IN
         IF ~IsSome(jsondata.creationDate) THEN Raised("!KeyError", s1)
         ELSE LET s2 == [s1 EXCEPT !.creation_date = Some(StringToDate(Get(jsondata.creationDate)))] IN
              IF ~IsSome(jsondata.updateDate) THEN Raised("!KeyError", s2)
              ELSE Loaded([s2 EXCEPT
                      !.modification_date = Some(StringToDate(Get(jsondata.updateDate))),
                      !.hash = GetOr(jsondata.hash, NoneStr),
                      !.branch = IF IsSome(jsondata.branch)
                                 THEN Some(StripBranchPrefix(Get(jsondata.branch)))
                                 ELSE Nothing,
                      !.pull_request = jsondata.pullRequest])

\* Lines 140-144
LoadFromExport(self, jsondata) ==
    LET c == LoadCommon(self, jsondata) IN
    IF c.raised # "none" THEN c
    ELSE IF ~IsSome(jsondata.projectKey) THEN Raised("!KeyError", c.self)
    ELSE LET s1 == [c.self EXCEPT !.projectKey = Get(jsondata.projectKey)] IN
         IF ~IsSome(jsondata.createdAt) THEN Raised("!KeyError", s1)
         ELSE LET s2 == [s1 EXCEPT !.creation_date = Some(StringToDate(Get(jsondata.createdAt)))] IN
              IF ~IsSome(jsondata.updatedAt) THEN Raised("!KeyError", s2)
              ELSE Loaded([s2 EXCEPT
                      !.modification_date = Some(StringToDate(Get(jsondata.updatedAt)))])

\* Lines 100-105
Load(self, data, from_export) ==
    IF ~IsSome(data) THEN Loaded(self)
    ELSE IF from_export THEN LoadFromExport(self, Get(data))
    ELSE LoadFromSearch(self, Get(data))

-----------------------------------------------------------------------------
(* Finding.to_json *)

\* strftime with util.SQ_DATETIME_FORMAT, or with util.SQ_DATE_FORMAT when
\* without_time is set
DateOnlyStrings == <<"2024-01-01", "2024-01-02">>

DateToString(d, without_time) == IF without_time THEN DateOnlyStrings[d] ELSE DateStrings[d]

\* Python truth of a string or None
Truthy(s) == s # NoneStr /\ s # ""

\* Lines 205-209: the first entry of status_conversion that matches, then break
StatusConversion(s) ==
    IF s = "WONTFIX" THEN "ACCEPTED"
    ELSE IF s = "REOPENED" THEN "OPEN"
    ELSE IF s = "REMOVED" THEN "FIXED"
    ELSE s

\* Mutant: the resolution does not replace the status (lines 203-204 missing)
ExportedStatus_IgnoresResolution(self) == StatusConversion(self.status)

\* Lines 203-209: data["status"] before the private and empty entries are removed
ExportedStatus(self) ==
    StatusConversion(IF Truthy(self.resolution) THEN self.resolution ELSE self.status)

\* Lines 212-214 on one entry: a None or "" value removes the key
Kept(v) == IF v = NoneStr \/ v = "" THEN Nothing ELSE Some(v)

\* Lines 188-215. The dict returned, one optional field per key that can be
\* left after the private fields are removed (absent: no such key), or the
\* exception raised.
ToJson(self, without_time) ==
    IF File(self) = TypeError THEN [raised |-> "!TypeError"]
    ELSE IF ~IsSome(self.creation_date) \/ ~IsSome(self.modification_date)
    THEN [raised |-> "!AttributeError"]
    ELSE [ raised |-> "none",
           key |-> Kept(self.key),
           severity |-> Kept(self.severity),
           type |-> Kept(self.type),
           author |-> Kept(self.author),
           rule |-> Kept(self.rule),
           projectKey |-> Kept(self.projectKey),
           message |-> Kept(self.message),
           line |-> IF self.line = PyNone \/ self.line = PyStr(<<>>) THEN Nothing
                    ELSE Some(self.line),
           branch |-> self.branch,
           pullRequest |-> self.pull_request,
           comments |-> self.comments,
           effort |-> Kept(""),
           file |-> Kept(File(self)),
           creationDate |-> Some(DateToString(Get(self.creation_date), without_time)),
           updateDate |-> Some(DateToString(Get(self.modification_date), without_time)),
           resolution |-> IF Truthy(self.resolution) THEN Nothing ELSE Kept(self.resolution),
           status |-> Kept(ExportedStatus(self)) ]

\* Raw records. The fields the claims are about vary; the others are fixed.
LineStrings ==
    { <<"n", "u", "l", "l">>, <<"1", "2">>, <<"0", "0", "7">>, <<" ", "4", "2", " ">>,
      <<"-", "3">>, <<"a", "b", "c">>, <<"1", ".", "5">>, <<"1", "2", "a">>, <<>> }

LineValues == {PyNone, PyInt(5), PyList} \cup {PyStr(cs) : cs \in LineStrings}

BranchValues == {Nothing, Some(<<"b1">>), Some(<<"BRANCH", "b1">>)}

StatusValues == {"OPEN", "REOPENED", "RESOLVED", "WONTFIX"}

ResolutionValues == {"FIXED", "WONTFIX", "REMOVED", "FALSE-POSITIVE", ""}

\* A record of the search shape or of the export shape
RawRecord(shape, status, resolution, line, lineNumber, branch, pullRequest) ==
    [ status |-> status, resolution |-> resolution, rule |-> Some("java:S100"),
      ruleReference |-> Nothing, line |-> line, lineNumber |-> lineNumber,
      author |-> Some("alice"), type |-> Some("BUG"), severity |-> Some("MAJOR"),
      message |-> Some("m1"), component |-> Some(<<"proj", "f1">>), path |-> Nothing,
      startOffset |-> Nothing, hash |-> Some("h1"), branch |-> branch,
      pullRequest |-> pullRequest,
      project |-> IF shape = "search" THEN Some("proj") ELSE Nothing,
      creationDate |-> IF shape = "search" THEN Some(DateStrings[1]) ELSE Nothing,
      updateDate |-> IF shape = "search" THEN Some(DateStrings[2]) ELSE Nothing,
      projectKey |-> IF shape = "export" THEN Some("proj") ELSE Nothing,
      createdAt |-> IF shape = "export" THEN Some(DateStrings[1]) ELSE Nothing,
      updatedAt |-> IF shape = "export" THEN Some(DateStrings[2]) ELSE Nothing ]

RawRecords ==
    { RawRecord(shape, status, resolution, line, lineNumber, branch, pullRequest) :
        shape \in {"search", "export"},
        status \in {Nothing} \cup {Some(v) : v \in StatusValues},
        resolution \in {Nothing} \cup {Some(v) : v \in ResolutionValues},
        line \in {Nothing} \cup {Some(v) : v \in LineValues},
        lineNumber \in {Nothing, Some(PyInt(3))},
        branch \in BranchValues,
        pullRequest \in {Nothing, Some("7")} }

\* Finding(key, endpoint, data, from_export) is called
InitLoad ==
    /\ CallsIdle
    /\ server = Platform(<<>>, <<>>, FALSE, FALSE)
    /\ SearchIdle
    /\ EnrichIdle
    /\ GatesIdle
    /\ init_data \in {Nothing} \cup {Some(r) : r \in RawRecords}
    /\ init_from_export \in BOOLEAN
    /\ outcome = "none"
    /\ obj = Nothing
    /\ exported = Nothing

\* Lines 77-98: the caller receives the object unless _load raised
Construct ==
    /\ outcome = "none"
    /\ LET r == Load(NewFinding("k0"), init_data, init_from_export) IN
          /\ outcome' = IF r.raised = "none" THEN "constructed" ELSE r.raised
          /\ obj' = IF r.raised = "none" THEN Some(r.self) ELSE Nothing
    /\ UNCHANGED <<init_data, init_from_export, exported, callVars, server, searchVars,
                   enrichVars, gateVars>>

\* obj.to_json(without_time) on the Finding the caller received
CallToJson ==
    /\ outcome = "constructed"
    /\ exported = Nothing
    /\ \E without_time \in BOOLEAN :
          exported' = Some(ToJson(Get(obj), without_time))
    /\ UNCHANGED <<init_data, init_from_export, outcome, obj, callVars, server,
                   searchVars, enrichVars, gateVars>>

NextLoad == Construct \/ CallToJson

SpecLoad == InitLoad /\ [][NextLoad]_vars

-----------------------------------------------------------------------------
(* Properties of Finding construction, checked under SpecLoad *)

Called == outcome # "none"

Constructed == outcome = "constructed"

\* The raw record of the call
Record == Get(init_data)

\* The record has the status and the fields of the shape it is loaded as
C18_Complete ==
    /\ IsSome(Record.status)
    /\ IF init_from_export
       THEN IsSome(Record.projectKey) /\ IsSome(Record.createdAt) /\ IsSome(Record.updatedAt)
       ELSE IsSome(Record.project) /\ IsSome(Record.creationDate) /\ IsSome(Record.updateDate)

\* The line of the record: "line", else "lineNumber", else none
C18_RawLine == GetOr(Record.line, GetOr(Record.lineNumber, PyNone))

C18_IsNumericString(v) ==
    IsPyStr(v) /\ v.str # <<>> /\ \A i \in 1..Len(v.str) : IsDigit(v.str[i])

\* C18: constructing a Finding from a raw record that has its required fields
\* does not raise whatever the record's line is, and the line of the Finding
\* is absent or an integer: absent for the string "null", the integer written
\* for a string of digits, absent for a value that does not coerce.
C18_LineAbsentOrInteger ==
    (Called /\ IsSome(init_data) /\ C18_Complete)
        => /\ Constructed
           /\ Get(obj).line = PyNone \/ IsPyInt(Get(obj).line)
           /\ C18_RawLine = NullString => Get(obj).line = PyNone
           /\ C18_IsNumericString(C18_RawLine)
                 => Get(obj).line = PyInt(DigitsValue(C18_RawLine.str))

\* C19: constructing a Finding from a raw record without a status field, of
\* the search shape or of the export shape, raises (KeyError on "status") and
\* the caller receives no Finding.
C19_NoStatusNoFinding ==
    (Called /\ IsSome(init_data) /\ ~IsSome(Record.status))
        => (outcome = "!KeyError" /\ obj = Nothing)

\* C19 witness: an export record, complete but for its status, loaded as an
\* export: the constructor raised.
C19_Witness ==
    /\ Called
    /\ IsSome(init_data)
    /\ init_from_export
    /\ ~IsSome(Record.status)
    /\ IsSome(Record.projectKey) /\ IsSome(Record.createdAt) /\ IsSome(Record.updatedAt)
    /\ Record.line = Some(PyInt(5))
    /\ outcome = "!KeyError"
    /\ obj = Nothing

\* C20: a constructed Finding never has both its branch and its pull request
\* set, whatever the raw record and its shape.
C20_BranchOrPullRequestNotBoth ==
    Constructed => ~(Get(obj).branch # Nothing /\ Get(obj).pull_request # Nothing)

\* to_json() returned a dict
Exported == exported # Nothing /\ Get(exported).raised = "none"

\* The value the export starts from: the resolution when one is set
C21_Source ==
    IF Get(obj).resolution \notin {NoneStr, ""} THEN Get(obj).resolution ELSE Get(obj).status

\* C21: the status to_json exports is the finding's resolution when one is set
\* and its status otherwise, with WONTFIX exported as ACCEPTED, REOPENED as
\* OPEN, REMOVED as FIXED and every other value as it is; the exported status
\* is never WONTFIX, REOPENED or REMOVED.
C21_ExportedStatusIsMapped ==
    Exported
        => /\ C21_Source = "WONTFIX" => Get(exported).status = Some("ACCEPTED")
           /\ C21_Source = "REOPENED" => Get(exported).status = Some("OPEN")
           /\ C21_Source = "REMOVED" => Get(exported).status = Some("FIXED")
           /\ C21_Source \notin {"WONTFIX", "REOPENED", "REMOVED"}
                 => Get(exported).status = Some(C21_Source)
           /\ Get(exported).status \notin {Some("WONTFIX"), Some("REOPENED"), Some("REMOVED")}

\* C21 witness: a finding of status RESOLVED and resolution WONTFIX was
\* exported with the status ACCEPTED.
C21_Witness ==
    /\ Exported
    /\ Get(obj).status = "RESOLVED"
    /\ Get(obj).resolution = "WONTFIX"
    /\ Get(exported).status = Some("ACCEPTED")

-----------------------------------------------------------------------------
(* More properties of the matcher, checked under Spec *)

\* Both findings carry a text-range start offset
C22_BothOffsets == IsSome(Get(a.json).startOffset) /\ IsSome(Get(b.json).startOffset)

\* C22: the start-offset check of strictly_identical_to applies to rule
\* python:S6540 only. For two findings with distinct keys, each with a rule and
\* a raw record, the result is the equality of rule, hash, message, file and
\* component (or ignore_component), and, for rule python:S6540 when both carry
\* a start offset, of the offsets; for any other rule the offsets have no
\* influence.
C22_OffsetCheckOnlyForS6540 ==
    (CalledStrictly /\ a.key # b.key /\ a.rule # NoneStr /\ IsSome(a.json) /\ IsSome(b.json))
        => ret = PyBool(/\ a.rule = b.rule
                        /\ a.hash = b.hash
                        /\ a.message = b.message
                        /\ File(a) = File(b)
                        /\ (a.component = b.component \/ opts.ignore_component)
                        /\ (a.rule = "python:S6540" /\ C22_BothOffsets)
                              => Get(a.json).startOffset = Get(b.json).startOffset)

-----------------------------------------------------------------------------
(* More properties of search_siblings, checked under SpecSearch *)

\* The positions of S among those of seq, in the order of seq
C23_InOrder(seq, S) == SelectSeq(seq, LAMBDA p : p \in S)

\* The candidates: the entries of the population with another key than the source
C23_Candidates == {p \in 1..Len(findings_list) : findings_list[p].key # ss_self.key}

\* C23: when search_siblings returns and no candidate is strictly identical
\* to the source, exact_matches is empty, approx_matches holds exactly the
\* almost identical candidates that can be synced and match_but_modified
\* exactly those that cannot, each once and in the order of the input; a
\* candidate that is not almost identical is in no list.
C23_ApproximatePass ==
    (Returned /\ StrictPositions = {})
        => /\ exact_matches = <<>>
           /\ C23_InOrder(approx_matches, C23_Candidates)
                 = C23_InOrder([p \in 1..Len(findings_list) |-> p],
                               {p \in C23_Candidates \cap AlmostPositions : Syncable(p)})
           /\ C23_InOrder(match_but_modified, C23_Candidates)
                 = C23_InOrder([p \in 1..Len(findings_list) |-> p],
                               {p \in C23_Candidates \cap AlmostPositions : ~Syncable(p)})

\* C23 witness: two candidates of another key, both almost but not strictly
\* identical to the source; the first was modified by a human, the second is
\* untouched: both are returned, each in its list.
C23_Witness ==
    /\ Returned
    /\ StrictPositions = {}
    /\ C23_Candidates = {1, 2}
    /\ AlmostPositions = {1, 2}
    /\ ~Syncable(1) /\ Syncable(2)
    /\ approx_matches = <<2>>
    /\ match_but_modified = <<1>>
    /\ exact_matches = <<>>

-----------------------------------------------------------------------------
(* Properties of file(), checked under Spec *)

\* The component of the raw record of a
C24_Component == Get(Get(a.json).component)

\* The markers of the component: a BRANCH or PULL_REQUEST segment with a
\* colon on either side
C24_Markers ==
    MarkerPositions(C24_Component, "BRANCH") \cup MarkerPositions(C24_Component, "PULL_REQUEST")

\* C24: file() on a finding with a raw record returns, when the record has a
\* component, the last segment of what is left of it once everything from its
\* first BRANCH or PULL_REQUEST marker on is stripped; the path of the record
\* when it has no component; nothing, and no error, when it has neither.
C24_FileStripsFromFirstMarker ==
    (op = "file" /\ IsSome(a.json))
        => ret = IF IsSome(Get(a.json).component)
                 THEN (IF C24_Markers = {} THEN Last(C24_Component)
                       ELSE C24_Component[Min(C24_Markers) - 1])
                 ELSE IF IsSome(Get(a.json).path) THEN Get(Get(a.json).path)
                 ELSE NoneStr

-----------------------------------------------------------------------------
(* More properties of get_changelogs, checked under SpecEnrich *)

\* No queue was created and no thread was started
C25_NothingStarted ==
    /\ mainPc \in {"call", "returned"}
    /\ queue = <<>>
    /\ unfinished_tasks = 0
    /\ started = 0
    /\ \A w \in 1..threads : workerPc[w] = "unstarted" /\ workerItem[w] = 0

\* The first step of a call on an empty list is its return
C25_Step ==
    (mainPc = "call" /\ issue_list = <<>> /\ mainPc' # mainPc)
        => (mainPc' = "returned" /\ issue_list' = <<>>)

\* C25: get_changelogs on an empty list returns at once: it creates no queue
\* and starts no worker, so nothing is fetched, whatever added_after and the
\* number of threads are.
C25_EmptyListIsANoOp ==
    /\ [](issue_list = <<>> => C25_NothingStarted)
    /\ [][C25_Step]_vars

\* C25 witness: a call on an empty list with two threads and a cutoff has
\* returned.
C25_Witness ==
    /\ MainReturned
    /\ issue_list = <<>>
    /\ threads = 2
    /\ gc_added_after = Some(2)
    /\ runs = <<(<<>>)>>
    /\ C25_NothingStarted

\* C26: a worker that saw the queue non-empty always gets an item, so no
\* worker stays blocked on the work queue after the last finding was taken.
\* Nothing is put on the queue once the threads are started, so a worker that
\* is at queue.get() while the queue is empty waits for ever.
C26_NoWorkerBlockedOnEmptyQueue ==
    \A w \in 1..threads : workerPc[w] = "get" => queue # <<>>

\* C27: a call of get_changelogs on a non-empty list with at least one
\* worker, on a platform whose fetches all succeed, eventually returns when
\* the threads are scheduled fairly.
C27_BatchTerminates ==
    (mainPc = "call" /\ issue_list # <<>> /\ threads >= 1 /\ ~SomeFetchFails)
        ~> MainReturned

\* C27 witness: a call on one finding with two workers, more workers than
\* findings, has returned with the finding enriched.
C27_Witness ==
    /\ MainReturned
    /\ Len(issue_list) = 1
    /\ threads = 2
    /\ started = 2
    /\ ~SomeFetchFails
    /\ gc_added_after = Nothing
    /\ Enriched(issue_list[1])

-----------------------------------------------------------------------------
(* The source's own history in search_siblings, checked under SpecSearch *)

\* Histories the source could have instead of its own
C28_Histories ==
    [changelog : {Some(<<>>), Some(<<"alice">>), Some(<<"bot">>)},
     comments : {Some(<<>>), Some(<<"alice">>)}]

\* The source with history h
C28_Source(h) == [ss_self EXCEPT !.changelog = h.changelog, !.comments = h.comments]

\* The population of the call when the source has history h: an entry that is
\* the source itself has that history too, every other entry is as it is
C28_Population(h) ==
    [p \in 1..Len(findings_list) |->
        IF findings_list[p] = ss_self THEN C28_Source(h) ELSE findings_list[p]]

\* The same call made by the source with history h
C28_OtherCall(h) ==
    SearchSiblings(C28_Source(h), C28_Population(h), server, allowed_users,
                   ss_ignore_component, ss_kwargs)

\* C28: search_siblings evaluates the sync policy on the candidate only: the
\* call that differs from this one only in the changelog and comments of the
\* source returns the same three lists.
C28_SourceHistoryIsIrrelevant ==
    Returned
        => \A h \in C28_Histories :
              /\ C28_OtherCall(h).phase = "returned"
              /\ C28_OtherCall(h).exact_matches = exact_matches
              /\ C28_OtherCall(h).approx_matches = approx_matches
              /\ C28_OtherCall(h).match_but_modified = match_but_modified

-----------------------------------------------------------------------------
(* Symmetry of the matcher, checked under Spec *)

\* C29: the matcher is symmetric: a.strictly_identical_to(b) has the outcome
\* of b.strictly_identical_to(a), and a.almost_identical_to(b) the outcome of
\* b.almost_identical_to(a), for all findings and all options.
C29_MatcherIsSymmetric ==
    /\ CalledStrictly => ret = StrictlyIdenticalTo(b, a, opts.ignore_component)
    /\ CalledAlmost => ret = AlmostIdenticalTo(b, a, opts.ignore_component, opts.kwargs)

-----------------------------------------------------------------------------
(* qualitygates.py: QualityGate objects and the module's registries *)

\* most QualityGate objects constructed in a run
MaxObjects == 3

GateNames == {"A", "B", "C"}

\* The ids the platform gives its gates, in the order it lists them
GateIds == <<"id1", "id2", "id3">>

\* Python dicts as functions
Put(d, k, v) == [x \in DOMAIN d \cup {k} |-> IF x = k THEN v ELSE d[x]]

Pop(d, k) == [x \in DOMAIN d \ {k} |-> d[x]]

\* Line 374
_uuid(name, id) == id

\* The names in use on the platform
PlatformNames(platform) == {platform[i] : i \in DOMAIN platform}

\* util.search_by_name: the record {id, name} of the gate of that name
SearchByName(platform, name) ==
    LET i == CHOOSE i \in DOMAIN platform : platform[i] = name
    IN  [id |-> i, name |-> name]

\* The objects and the two registries
Registry == [objects |-> qg_objects, QUALITY_GATES |-> _QUALITY_GATES, MAP |-> _MAP]

SetRegistry(reg) ==
    /\ qg_objects' = reg.objects
    /\ _QUALITY_GATES' = reg.QUALITY_GATES
    /\ _MAP' = reg.MAP

\* Lines 80-85: the end of __init__, once data is the record of the gate
NewQualityGate(reg, data) ==
    LET o == Len(reg.objects) + 1 IN
    [ objects |-> Append(reg.objects, [key |-> data.id, name |-> data.name]),
      QUALITY_GATES |-> Put(reg.QUALITY_GATES, _uuid(data.name, data.id), o),
      MAP |-> Put(reg.MAP, data.name, [id |-> data.id]) ]

\* Lines 287-296: one object per gate the platform lists, from position n on
RECURSIVE GetListFrom(_, _, _)
GetListFrom(reg, platform, n) ==
    IF n > Len(GateIds) THEN reg
    ELSE IF GateIds[n] \in DOMAIN platform
    THEN GetListFrom(NewQualityGate(reg, [id |-> GateIds[n], name |-> platform[GateIds[n]]]),
                     platform, n + 1)
    ELSE GetListFrom(reg, platform, n + 1)

GetList(reg, platform) == GetListFrom(reg, platform, 1)

\* Lines 300-301: the registries once get_object has loaded them if empty
Loaded_Registry(reg, platform) ==
    IF DOMAIN reg.QUALITY_GATES = {} THEN GetList(reg, platform) ELSE reg

\* Lines 302-304 on loaded registries: the object returned, 0 for None
Lookup(reg, name) ==
    IF name \notin DOMAIN reg.MAP THEN 0
    ELSE reg.QUALITY_GATES[_uuid(name, reg.MAP[name].id)]

\* Platforms with at most two gates, of distinct names
InitGates ==
    /\ CallsIdle
    /\ server = Platform(<<>>, <<>>, FALSE, FALSE)
    /\ SearchIdle
    /\ EnrichIdle
    /\ LoadIdle
    /\ \E S \in SUBSET {"id1", "id2"} :
          \E f \in [S -> GateNames] :
             /\ \A i, j \in S : f[i] = f[j] => i = j
             /\ qg_platform = f
    /\ qg_objects = <<>>
    /\ _QUALITY_GATES = <<>>
    /\ _MAP = <<>>
    /\ qg_ret = [called |-> FALSE, name |-> "", obj |-> 0]

GatesFrame == UNCHANGED <<callVars, server, searchVars, enrichVars, loadVars>>

\* QualityGate(name, endpoint): lines 66-85 with data and create_data None.
\* For a name the platform does not have, data["id"] raises before line 84.
Construct_QualityGate(name) ==
    /\ Len(qg_objects) < MaxObjects
    /\ name \in PlatformNames(qg_platform)
    /\ SetRegistry(NewQualityGate(Registry, SearchByName(qg_platform, name)))
    /\ UNCHANGED <<qg_platform, qg_ret>>
    /\ GatesFrame

\* get_list(endpoint): lines 287-296
Call_get_list ==
    /\ Len(qg_objects) + Cardinality(DOMAIN qg_platform) <= MaxObjects
    /\ DOMAIN qg_platform # {}
    /\ SetRegistry(GetList(Registry, qg_platform))
    /\ UNCHANGED <<qg_platform, qg_ret>>
    /\ GatesFrame

\* get_object(name, endpoint): lines 299-304
Call_get_object(name) ==
    /\ Len(qg_objects) + Cardinality(DOMAIN qg_platform) <= MaxObjects
    /\ SetRegistry(Loaded_Registry(Registry, qg_platform))
    /\ qg_ret' = [called |-> TRUE, name |-> name,
                  obj |-> Lookup(Loaded_Registry(Registry, qg_platform), name)]
    /\ UNCHANGED qg_platform
    /\ GatesFrame

\* create(name, endpoint): lines 315-320 and, for a gate get_object does not
\* find, lines 75-78: the platform creates the gate under a new id. The
\* platform refuses a name it already has.
Call_create(name) ==
    /\ Len(qg_objects) + Cardinality(DOMAIN qg_platform) < MaxObjects
    /\ name \notin PlatformNames(qg_platform)
    /\ \E n \in 1..Len(GateIds) :
          /\ GateIds[n] \notin DOMAIN qg_platform
          /\ \A m \in 1..(n - 1) : GateIds[m] \in DOMAIN qg_platform
          /\ LET reg == Loaded_Registry(Registry, qg_platform) IN
             IF Lookup(reg, name) # 0
             THEN SetRegistry(reg) /\ UNCHANGED qg_platform
             ELSE /\ qg_platform' = Put(qg_platform, GateIds[n], name)
                  /\ SetRegistry(NewQualityGate(reg, [id |-> GateIds[n], name |-> name]))
    /\ UNCHANGED qg_ret
    /\ GatesFrame

\* Lines 206-208: the registries and the object after the rename
Renamed(reg, o, name) ==
    [ objects |-> [reg.objects EXCEPT ![o].name = name],
      QUALITY_GATES |-> reg.QUALITY_GATES,
      MAP |-> Put(Pop(reg.MAP, _uuid(reg.objects[o].name, reg.objects[o].key)),
                  _uuid(name, reg.objects[o].key), [obj |-> o]) ]

\* o.update(name=...): lines 202-211. The platform renames the gate (line
\* 205) and refuses a name it already has. Conditions and permissions are
\* not kept in the registries.
Call_update(o, name) ==
    /\ o \in 1..Len(qg_objects)
    /\ IF name # qg_objects[o].name
       THEN /\ name \notin PlatformNames(qg_platform)
            /\ qg_platform' = [qg_platform EXCEPT ![qg_objects[o].key] = name]
            /\ SetRegistry(Renamed(Registry, o, name))
       ELSE UNCHANGED <<qg_platform, qg_objects, _QUALITY_GATES, _MAP>>
    /\ UNCHANGED qg_ret
    /\ GatesFrame

NextGates ==
    \/ \E name \in GateNames : Construct_QualityGate(name)
    \/ Call_get_list
    \/ \E name \in GateNames : Call_get_object(name)
    \/ \E name \in GateNames : Call_create(name)
    \/ \E o \in 1..MaxObjects, name \in GateNames : Call_update(o, name)

SpecGates == InitGates /\ [][NextGates]_vars

-----------------------------------------------------------------------------
(* Properties of the quality gate registry, checked under SpecGates *)

\* The ids of the registered gates that now have the given name
C30_Named(name) == {u \in DOMAIN _QUALITY_GATES : qg_platform[u] = name}

\* C30: after any sequence of constructions and updates, _MAP maps exactly
\* the current name of each registered gate to its id, get_object of the
\* current name of a registered gate returns that gate, and get_object of any
\* other name, the old name of a renamed gate included, returns None.
C30_RegistryConsistent ==
    /\ DOMAIN _MAP = {qg_platform[u] : u \in DOMAIN _QUALITY_GATES}
    /\ \A u \in DOMAIN _QUALITY_GATES : _MAP[qg_platform[u]] = [id |-> u]
    /\ \A name \in GateNames :
          DOMAIN _QUALITY_GATES # {}
             => IF C30_Named(name) = {} THEN Lookup(Registry, name) = 0
                ELSE \E u \in C30_Named(name) : Lookup(Registry, name) = _QUALITY_GATES[u]

====
